---- MODULE Spec2Model ----
(***************************************************************************)
(* Model of frontend/src/components/ui/config-details.ts:                  *)
(*   - ConfigDetails (btrix-config-details): the crawl-configuration       *)
(*     summary, its org-default and collection fetches, and the rows it    *)
(*     renders;                                                            *)
(*   - Meter (btrix-meter): range clamping, bar width, the debounced       *)
(*     resize handler and the compact-label decision.                      *)
(*                                                                         *)
(* Optional values (T | undefined | null) are sequences of length <= 1:    *)
(* <<>> is "absent", <<v>> is "present with value v".  crawlConfig.config  *)
(* is flattened into the crawlConfig record.                               *)
(***************************************************************************)
EXTENDS Integers, Sequences, FiniteSets, TLC

VARIABLES
    crawlConfig,     \* ConfigDetails.crawlConfig (optional record)
    seeds,           \* ConfigDetails.seeds (optional sequence of seed records)
    orgDefaults,     \* ConfigDetails.orgDefaults (optional record of optional numbers)
    collections,     \* ConfigDetails.collections
    notices,         \* messages passed to this.notify, oldest first
    mounted,         \* connectedCallback has run
    defaultsPc,      \* fetchAPIDefaults: "idle" | "awaitFetch" | "done" | "caught"
    collPc,          \* fetchCollections/getCollections: "idle" | "awaitApiFetch" | "done"
    collIds,         \* the autoAddCollections array the for-of loop iterates
    collIdx,         \* position of the loop in collIds (1-based)
    collLocal,       \* getCollections' local `collections` array
    settingsRequests,\* history: number of requests to /api/settings
    collRequests,    \* history: the collection ids requested, in order
    mountConfig,     \* history: what connectedCallback found in crawlConfig
    min,             \* Meter.min
    max,             \* Meter.max (optional)
    value,           \* Meter.value
    rendered,        \* the meter has rendered at least once
    hasMaxText,      \* the .maxText element exists in the meter's DOM
    withSeparator,   \* .maxText carries the class "withSeparator"
    lastReposition,  \* history: the measurements of the latest repositionLabels
                     \* call on the current .maxText that passed its early returns
    pending,         \* debounce: a trailing invocation is scheduled (timer set)
    lastArgs,        \* debounce: the track width kept for the trailing invocation
    sinceLastCall,   \* ms elapsed since the latest sl-resize event
    lastEvent,       \* history: track width of the latest sl-resize event
    events,          \* history: number of sl-resize events delivered
    bursts,          \* history: number of bursts of sl-resize events begun
    invocations,     \* history: number of runs of the debounced handler
    invokedWith      \* history: track width the latest run was given

cdVars == <<crawlConfig, seeds, orgDefaults, collections, notices, mounted,
            defaultsPc, collPc, collIds, collIdx, collLocal,
            settingsRequests, collRequests, mountConfig>>
meterVars == <<min, max, value, rendered, hasMaxText, withSeparator, lastReposition,
               pending, lastArgs, sinceLastCall, lastEvent, events, bursts,
               invocations, invokedWith>>
vars == <<cdVars, meterVars>>

----------------------------------------------------------------------------
(* Optional values *)

None == <<>>
Some(v) == <<v>>
IsSet(o) == o /= <<>>
Val(o) == o[1]
\* JavaScript truthiness of an optional number: present and not 0
TruthyNum(o) == IsSet(o) /\ Val(o) /= 0
\* a ?? b
Coalesce(a, b) == IF IsSet(a) THEN a ELSE b

----------------------------------------------------------------------------
(* Bounds of the model *)

\* longest autoAddCollections list
MaxAutoAdd == 3
\* the non-zero number a configuration field or a seed field carries
PosVal == 5
\* the positive number the settings endpoint reports
OrgVal == 30
\* lengths are counted in units of 1/SubPx of a CSS pixel
SubPx == 2
\* the clock advances in steps of TickMs milliseconds
TickMs == 25
\* most sl-resize events delivered to one meter
MaxEvents == 3

----------------------------------------------------------------------------
(* ConfigDetails: data *)

ScopeTypes == {"prefix", "host", "domain", "page-spa", "page", "custom", "any"}

\* A loaded crawl configuration with every optional field absent
BaseConfig ==
    [jobType |-> "url-list", oid |-> "org",
     autoAddCollections |-> None,
     limit |-> None, pageLoadTimeout |-> None, postLoadDelay |-> None,
     behaviorTimeout |-> None, behaviors |-> None, pageExtraDelay |-> None,
     crawlTimeout |-> None, maxCrawlSize |-> None, scale |-> None,
     scopeType |-> None, include |-> None, depth |-> None, extraHops |-> None,
     failOnFailedSeed |-> None]

\* A seed with every override absent
BaseSeed ==
    [url |-> "u1", scopeType |-> None, include |-> None, depth |-> None,
     extraHops |-> None, limit |-> None]

\* autoAddCollections lists: ids 1..n in list order
AutoAddLists == {[i \in 1..n |-> i] : n \in 0..MaxAutoAdd}

\* Outcomes of one apiFetch of a collection
FetchOutcomes == {"data", "noData", "throw404", "throwOther"}

notFoundMsg == "Collections not found."
unavailableMsg == "Sorry, couldn't retrieve Collection details at this time."

----------------------------------------------------------------------------
(* ConfigDetails: fetchCollections / getCollections *)

\* getCollections up to its first await, or to its end when the loop body
\* never runs: the loop needs a truthy orgId and a non-empty id list.
getCollectionsEnter(cfg) ==
    IF cfg.oid /= "" /\ Len(Val(cfg.autoAddCollections)) > 0
    THEN /\ collPc' = "awaitApiFetch"
         /\ collIds' = Val(cfg.autoAddCollections)
         /\ collIdx' = 1
         /\ collLocal' = <<>>
         /\ collRequests' = Append(collRequests, Val(cfg.autoAddCollections)[1])
         /\ UNCHANGED collections
    ELSE /\ collPc' = "done"
         /\ collections' = <<>>
         /\ UNCHANGED <<collIds, collIdx, collLocal, collRequests>>

\* fetchCollections: only a configuration that is present and carries
\* autoAddCollections leads to getCollections.
fetchCollections ==
    IF IsSet(crawlConfig) /\ IsSet(Val(crawlConfig).autoAddCollections)
    THEN getCollectionsEnter(Val(crawlConfig))
    ELSE /\ collPc' = "done"
         /\ UNCHANGED <<collections, collIds, collIdx, collLocal, collRequests>>

\* The notice fetchCollections' catch block raises
catchNotice(outcome) ==
    IF outcome = "throw404" THEN notFoundMsg ELSE unavailableMsg

\* One apiFetch of getCollections settles.  A resolved fetch pushes its
\* data (when truthy) and the loop goes on, assigning this.collections after
\* the last id; a rejected fetch leaves getCollections through the throw, and
\* fetchCollections' catch notifies.
getCollectionsStep(outcome) ==
    /\ collPc = "awaitApiFetch"
    /\ IF outcome \in {"data", "noData"}
       THEN LET pushed == IF outcome = "data"
                          THEN Append(collLocal, collIds[collIdx])
                          ELSE collLocal
            IN /\ collLocal' = pushed
               /\ IF collIdx < Len(collIds)
                  THEN /\ collIdx' = collIdx + 1
                       /\ collRequests' = Append(collRequests, collIds[collIdx + 1])
                       /\ UNCHANGED <<collPc, collections>>
                  ELSE /\ collPc' = "done"
                       /\ collections' = pushed
                       /\ UNCHANGED <<collIdx, collRequests>>
               /\ UNCHANGED notices
       ELSE /\ notices' = Append(notices, catchNotice(outcome))
            /\ collPc' = "done"
            /\ UNCHANGED <<collections, collIdx, collLocal, collRequests>>
    /\ UNCHANGED <<crawlConfig, seeds, orgDefaults, mounted, defaultsPc, collIds,
                   settingsRequests, mountConfig>>
    /\ UNCHANGED meterVars

----------------------------------------------------------------------------
(* ConfigDetails: fetchAPIDefaults *)

NoDefaults ==
    [pageLoadTimeoutSeconds |-> None, behaviorTimeoutSeconds |-> None,
     maxPagesPerCrawl |-> None]

\* mergeDefaults with the comparisons slipped to >= 0
mergeDefaults_AcceptsZero(prev, data) ==
    LET base == IF IsSet(prev) THEN Val(prev) ELSE NoDefaults
    IN [behaviorTimeoutSeconds |->
            IF data.defaultBehaviorTimeSeconds >= 0
            THEN Some(data.defaultBehaviorTimeSeconds)
            ELSE base.behaviorTimeoutSeconds,
        pageLoadTimeoutSeconds |->
            IF data.defaultPageLoadTimeSeconds >= 0
            THEN Some(data.defaultPageLoadTimeSeconds)
            ELSE base.pageLoadTimeoutSeconds,
        maxPagesPerCrawl |->
            IF data.maxPagesPerCrawl >= 0
            THEN Some(data.maxPagesPerCrawl)
            ELSE base.maxPagesPerCrawl]

\* The object fetchAPIDefaults assigns: a copy of the previous orgDefaults in
\* which each field is overwritten by the response's value when that is > 0.
mergeDefaults(prev, data) ==
    LET base == IF IsSet(prev) THEN Val(prev) ELSE NoDefaults
    IN [behaviorTimeoutSeconds |->
            IF data.defaultBehaviorTimeSeconds > 0
            THEN Some(data.defaultBehaviorTimeSeconds)
            ELSE base.behaviorTimeoutSeconds,
        pageLoadTimeoutSeconds |->
            IF data.defaultPageLoadTimeSeconds > 0
            THEN Some(data.defaultPageLoadTimeSeconds)
            ELSE base.pageLoadTimeoutSeconds,
        maxPagesPerCrawl |->
            IF data.maxPagesPerCrawl > 0
            THEN Some(data.maxPagesPerCrawl)
            ELSE base.maxPagesPerCrawl]

\* Values a field of the /api/settings response takes
SettingsVals == {-1, 0, OrgVal}
SettingsData ==
    [defaultBehaviorTimeSeconds : SettingsVals,
     defaultPageLoadTimeSeconds : SettingsVals,
     maxPagesPerCrawl : SettingsVals]

\* fetch("/api/settings") resolves with an OK response carrying data
fetchAPIDefaultsOk(data) ==
    /\ defaultsPc = "awaitFetch"
    /\ orgDefaults' = Some(mergeDefaults(orgDefaults, data))
    /\ defaultsPc' = "done"
    /\ UNCHANGED <<crawlConfig, seeds, collections, notices, mounted,
                   collPc, collIds, collIdx, collLocal,
                   settingsRequests, collRequests, mountConfig>>
    /\ UNCHANGED meterVars

\* fetchAPIDefaultsFail with a retry: the catch block issues the request again
fetchAPIDefaultsFail_Retry ==
    /\ defaultsPc = "awaitFetch"
    /\ settingsRequests < 3
    /\ defaultsPc' = "awaitFetch"
    /\ settingsRequests' = settingsRequests + 1
    /\ UNCHANGED <<crawlConfig, seeds, orgDefaults, collections, notices, mounted,
                   collPc, collIds, collIdx, collLocal, collRequests, mountConfig>>
    /\ UNCHANGED meterVars

\* fetch rejects (network error) or resolves with a non-OK response: the
\* error is caught and logged with console.debug, nothing else happens.
fetchAPIDefaultsFail ==
    /\ defaultsPc = "awaitFetch"
    /\ defaultsPc' = "caught"
    /\ UNCHANGED <<crawlConfig, seeds, orgDefaults, collections, notices, mounted,
                   collPc, collIds, collIdx, collLocal,
                   settingsRequests, collRequests, mountConfig>>
    /\ UNCHANGED meterVars

----------------------------------------------------------------------------
(* ConfigDetails: values handed to renderSetting and what it displays *)

\* A value of the template language.  type is the JavaScript type that
\* renderSetting tests ("undefined", "string", "boolean", "array", "html" for
\* a template result); text is the message shown, n the number formatted into
\* it, isDefault whether the "(default)" message is appended, items the list
\* entries of a list.
DV(type, text, n, isDefault, items) ==
    [type |-> type, text |-> text, n |-> n, isDefault |-> isDefault, items |-> items]

Undefined == DV("undefined", "", 0, FALSE, <<>>)
Str(text, n) == DV("string", text, n, FALSE, <<>>)
Bool(b) == DV("boolean", IF b THEN "true" ELSE "false", 0, FALSE, <<>>)
Html(text, n, isDefault) == DV("html", text, n, isDefault, <<>>)
HtmlList(items) == DV("html", "list", 0, FALSE, items)

\* fallbackValue of renderTimeLimit: Infinity or a finite number
Infinity == [inf |-> TRUE, n |-> 0]
Finite(k) == [inf |-> FALSE, n |-> k]

\* render's local renderTimeLimit(valueSeconds, fallbackValue)
renderTimeLimit(valueSeconds, fallbackValue) ==
    IF TruthyNum(valueSeconds)
    THEN Str("duration", Val(valueSeconds))
    ELSE IF IsSet(fallbackValue)
    THEN IF Val(fallbackValue).inf THEN Html("Unlimited", 0, TRUE)
         ELSE IF Val(fallbackValue).n = 0 THEN Html("0 seconds", 0, TRUE)
         ELSE Html("duration", Val(fallbackValue).n, TRUE)
    ELSE Undefined

\* render's local renderSize(valueBytes)
renderSize(valueBytes) ==
    IF TruthyNum(valueBytes)
    THEN Html("bytes", Val(valueBytes), FALSE)
    ELSE Html("Unlimited", 0, TRUE)

\* JavaScript falsiness of a value that is neither a boolean nor a number
Falsy(v) == v.type = "undefined" \/ (v.type = "string" /\ v.text = "")

\* renderSetting(label, value): the content of the row
renderSetting(val) ==
    IF ~IsSet(crawlConfig) THEN Html("skeleton", 0, FALSE)
    ELSE IF val.type = "boolean"
    THEN Str(IF val.text = "true" THEN "Yes" ELSE "No", 0)
    ELSE IF val.type = "array" /\ val.items = <<>> THEN Html("None", 0, FALSE)
    ELSE IF Falsy(val) THEN Html("Not specified", 0, FALSE)
    ELSE val

\* A field of crawlConfig (crawlConfig?.x, crawlConfig?.config.x): absent
\* while crawlConfig itself is absent
Cfg(field) == IF IsSet(crawlConfig) THEN Val(crawlConfig)[field] ELSE None

\* this.seeds?.[0]?.limit
primarySeedLimit ==
    IF IsSet(seeds) /\ Len(Val(seeds)) > 0 THEN Val(seeds)[1].limit ELSE None

\* this.orgDefaults?.x
OrgDefault(field) == IF IsSet(orgDefaults) THEN Val(orgDefaults)[field] ELSE None

\* const maxPages = this.seeds?.[0]?.limit ?? seedsConfig?.limit
maxPages == Coalesce(primarySeedLimit, Cfg("limit"))

\* A duration fallback taken from the org defaults: orgDefaults?.x ?? Infinity
OrgFallback(field) ==
    IF IsSet(OrgDefault(field)) THEN Some(Finite(Val(OrgDefault(field))))
    ELSE Some(Infinity)

MaxPagesValue ==
    IF TruthyNum(maxPages) THEN Str("pages", Val(maxPages))
    ELSE IF TruthyNum(OrgDefault("maxPagesPerCrawl"))
    THEN Html("pages", Val(OrgDefault("maxPagesPerCrawl")), TRUE)
    ELSE Undefined

AutoScrollValue ==
    IF IsSet(Cfg("behaviors")) /\ Val(Cfg("behaviors")) /= {}
       /\ "autoscroll" \notin Val(Cfg("behaviors"))
    THEN Str("Disabled", 0)
    ELSE Html("Enabled", 0, TRUE)

ScaleValue ==
    IF TruthyNum(Cfg("scale")) THEN Str("scale", Val(Cfg("scale"))) ELSE Str("", 0)

\* The rows of the "Crawler Settings" section that follow the exclusions
SettingLabels ==
    {"Max Pages", "Page Load Timeout", "Delay After Page Load",
     "Page Behavior Timeout", "Auto-Scroll Behavior", "Delay Before Next Page",
     "Crawl Time Limit", "Crawl Size Limit", "Crawler Instances"}

SettingValue(label) ==
    CASE label = "Max Pages" -> MaxPagesValue
      [] label = "Page Load Timeout" ->
            renderTimeLimit(Cfg("pageLoadTimeout"), OrgFallback("pageLoadTimeoutSeconds"))
      [] label = "Delay After Page Load" ->
            renderTimeLimit(Cfg("postLoadDelay"), Some(Finite(0)))
      [] label = "Page Behavior Timeout" ->
            renderTimeLimit(Cfg("behaviorTimeout"), OrgFallback("behaviorTimeoutSeconds"))
      [] label = "Auto-Scroll Behavior" -> AutoScrollValue
      [] label = "Delay Before Next Page" ->
            renderTimeLimit(Cfg("pageExtraDelay"), Some(Finite(0)))
      [] label = "Crawl Time Limit" ->
            renderTimeLimit(Cfg("crawlTimeout"), Some(Infinity))
      [] label = "Crawl Size Limit" -> renderSize(Cfg("maxCrawlSize"))
      [] label = "Crawler Instances" -> ScaleValue

\* What render shows in the row
SettingRow(label) == renderSetting(SettingValue(label))

----------------------------------------------------------------------------
(* ConfigDetails: renderConfirmSeededSettings *)

\* ConfigDetails.scopeTypeLabels
scopeTypeLabels ==
    [t \in ScopeTypes |->
        CASE t = "prefix" -> "Path Begins with This URL"
          [] t = "host" -> "Pages on This Domain"
          [] t = "domain" -> "Pages on This Domain & Subdomains"
          [] t = "page-spa" -> "Single Page App (In-Page Links Only)"
          [] t = "page" -> "Page"
          [] t = "custom" -> "Custom"
          [] t = "any" -> "Any"]

\* The scope types for which the Max Depth row is rendered
DepthScopeTypes == {"host", "domain", "custom", "any"}

\* resolvedScopeType with the precedence reversed: crawl level first
resolvedScopeType_CrawlFirst(primary, cfg) ==
    IF IsSet(cfg.scopeType) THEN cfg.scopeType ELSE primary.scopeType

\* primarySeedConfig!.scopeType || seedsConfig.scopeType!
resolvedScopeType(primary, cfg) ==
    IF IsSet(primary.scopeType) THEN primary.scopeType ELSE cfg.scopeType

\* primarySeedConfig?.include || seedsConfig.include || []
\* (an array, even an empty one, is truthy)
includeUrlList(primary, cfg) ==
    IF IsSet(primary.include) THEN Val(primary.include)
    ELSE IF IsSet(cfg.include) THEN Val(cfg.include)
    ELSE <<>>

\* The value of the Crawl Scope row: the label looked up for the scope type,
\* undefined when there is no scope type to look up
crawlScopeValue(primary, cfg) ==
    IF IsSet(resolvedScopeType(primary, cfg))
    THEN Str(scopeTypeLabels[Val(resolvedScopeType(primary, cfg))], 0)
    ELSE Undefined

\* The value of the Extra URL Prefixes in Scope row
includeValue(primary, cfg) ==
    IF Len(includeUrlList(primary, cfg)) > 0
    THEN HtmlList(includeUrlList(primary, cfg))
    ELSE Str("None", 0)

\* The value of the Max Depth row
maxDepthValue(primary, cfg) ==
    IF TruthyNum(primary.depth) THEN Str("hops", Val(primary.depth))
    ELSE Str("None", 0)

\* The value of the Include Any Linked Page row:
\* Boolean(primarySeedConfig?.extraHops ?? seedsConfig.extraHops)
extraHopsValue(primary, cfg) ==
    Bool(TruthyNum(Coalesce(primary.extraHops, cfg.extraHops)))

\* The rows renderConfirmSeededSettings produces for a loaded configuration:
\* nothing while this.seeds is absent; a TypeError when the seed list is empty
\* (primarySeedConfig!.scopeType dereferences undefined); otherwise the rows,
\* Max Depth being optional.
renderConfirmSeededSettings ==
    IF ~IsSet(seeds) THEN [status |-> "nothing"]
    ELSE IF Len(Val(seeds)) = 0 THEN [status |-> "throws"]
    ELSE LET primary == Val(seeds)[1]
             cfg == Val(crawlConfig)
         IN [status |-> "rows",
             scope |-> renderSetting(crawlScopeValue(primary, cfg)),
             include |-> renderSetting(includeValue(primary, cfg)),
             depth |-> IF IsSet(resolvedScopeType(primary, cfg))
                          /\ Val(resolvedScopeType(primary, cfg)) \in DepthScopeTypes
                       THEN Some(renderSetting(maxDepthValue(primary, cfg)))
                       ELSE None,
             extraHops |-> renderSetting(extraHopsValue(primary, cfg))]

----------------------------------------------------------------------------
(* ConfigDetails: renderConfirmUrlListSettings *)

\* JavaScript truthiness of an optional boolean
TruthyBool(o) == IsSet(o) /\ Val(o)

\* this.seeds?.map((seed) => seed.url): the URLs listed, in seed order
seedUrls == IF IsSet(seeds) THEN [i \in 1..Len(Val(seeds)) |-> Val(seeds)[i].url]
            ELSE <<>>

\* urlListExtraHopsValue with the seeded rows' precedence: primary seed first
urlListExtraHopsValue_SeedFirst ==
    Bool(TruthyNum(Coalesce(IF IsSet(seeds) /\ Len(Val(seeds)) > 0
                            THEN Val(seeds)[1].extraHops ELSE None,
                            Cfg("extraHops"))))

\* The value of the Include Any Linked Page row:
\* Boolean(crawlConfig?.config.extraHops)
urlListExtraHopsValue == Bool(TruthyNum(Cfg("extraHops")))

\* The value of the Fail Crawl On Failed URL row:
\* Boolean(crawlConfig?.config.failOnFailedSeed)
failOnFailedSeedValue == Bool(TruthyBool(Cfg("failOnFailedSeed")))

\* The rows renderConfirmUrlListSettings produces
renderConfirmUrlListSettings ==
    [urls |-> renderSetting(HtmlList(seedUrls)),
     extraHops |-> renderSetting(urlListExtraHopsValue),
     failOnFailedSeed |-> renderSetting(failOnFailedSeedValue)]

\* render selects the seeded rows by job type
SeededMode == IsSet(crawlConfig) /\ Val(crawlConfig).jobType = "seed-crawl"

\* ... and the URL-list rows otherwise (also while crawlConfig is absent)
UrlListMode == ~SeededMode

----------------------------------------------------------------------------
(* ConfigDetails: lifecycle and properties set by the parent *)

\* connectedCallback: issues the settings request (fetchAPIDefaults runs to
\* its first await) and then enters fetchCollections.
connectedCallback ==
    /\ ~mounted
    /\ mounted' = TRUE
    /\ defaultsPc' = "awaitFetch"
    /\ settingsRequests' = settingsRequests + 1
    /\ fetchCollections
    /\ mountConfig' = Some(IF IsSet(crawlConfig)
                           THEN [loaded |-> TRUE,
                                 autoAddCollections |-> Val(crawlConfig).autoAddCollections,
                                 oid |-> Val(crawlConfig).oid]
                           ELSE [loaded |-> FALSE, autoAddCollections |-> None,
                                 oid |-> ""])
    /\ UNCHANGED <<crawlConfig, seeds, orgDefaults, notices>>
    /\ UNCHANGED meterVars

\* SetCrawlConfig with a property observer that fetches the collections of
\* the new configuration once the previous fetch has ended
SetCrawlConfig_Refetch(cfg) ==
    /\ crawlConfig' = Some(cfg)
    /\ crawlConfig' /= crawlConfig
    /\ IF mounted /\ collPc = "done" /\ IsSet(cfg.autoAddCollections)
       THEN getCollectionsEnter(cfg)
       ELSE UNCHANGED <<collections, collPc, collIds, collIdx, collLocal,
                        collRequests>>
    /\ UNCHANGED <<seeds, orgDefaults, notices, mounted, defaultsPc,
                   settingsRequests, mountConfig>>
    /\ UNCHANGED meterVars

\* The parent assigns the crawlConfig property
SetCrawlConfig(cfg) ==
    /\ crawlConfig' = Some(cfg)
    /\ crawlConfig' /= crawlConfig
    /\ UNCHANGED <<seeds, orgDefaults, collections, notices, mounted,
                   defaultsPc, collPc, collIds, collIdx, collLocal,
                   settingsRequests, collRequests, mountConfig>>
    /\ UNCHANGED meterVars

\* The parent assigns the seeds property
SetSeeds(ss) ==
    /\ seeds' = Some(ss)
    /\ seeds' /= seeds
    /\ UNCHANGED <<crawlConfig, orgDefaults, collections, notices, mounted,
                   defaultsPc, collPc, collIds, collIdx, collLocal,
                   settingsRequests, collRequests, mountConfig>>
    /\ UNCHANGED meterVars

\* The parent assigns a crawlConfig that differs from the current one in
\* one field (an edit of the workflow)
EditCrawlConfig(f, v) ==
    /\ IsSet(crawlConfig)
    /\ SetCrawlConfig([Val(crawlConfig) EXCEPT ![f] = v])

\* The parent assigns a seed list whose primary seed differs from the
\* current one in one field
EditPrimarySeed(f, v) ==
    /\ IsSet(seeds)
    /\ Len(Val(seeds)) > 0
    /\ SetSeeds([Val(seeds) EXCEPT ![1] = [@ EXCEPT ![f] = v]])

\* The parent assigns a seed list in which seed i differs from the current
\* one in one field
EditSeed(i, f, v) ==
    /\ IsSet(seeds)
    /\ i \in 1..Len(Val(seeds))
    /\ SetSeeds([Val(seeds) EXCEPT ![i] = [@ EXCEPT ![f] = v]])

\* State after construction of a Meter (field initialisers), not yet rendered
MeterIdle ==
    /\ min = 0
    /\ max = None
    /\ value = 0
    /\ rendered = FALSE
    /\ hasMaxText = FALSE
    /\ withSeparator = FALSE
    /\ lastReposition = None
    /\ pending = FALSE
    /\ lastArgs = 0
    /\ sinceLastCall = 0
    /\ lastEvent = 0
    /\ events = 0
    /\ bursts = 0
    /\ invocations = 0
    /\ invokedWith = None

\* State after construction of a ConfigDetails (field initialisers)
ConfigDetailsInit ==
    /\ crawlConfig = None
    /\ seeds = None
    /\ orgDefaults = None
    /\ collections = <<>>
    /\ notices = <<>>
    /\ mounted = FALSE
    /\ defaultsPc = "idle"
    /\ collPc = "idle"
    /\ collIds = <<>>
    /\ collIdx = 0
    /\ collLocal = <<>>
    /\ settingsRequests = 0
    /\ collRequests = <<>>
    /\ mountConfig = None

----------------------------------------------------------------------------
(* Meter: render *)

Maximum(a, b) == IF a >= b THEN a ELSE b
Minimum(a, b) == IF a <= b THEN a ELSE b

\* const max = this.max ? Math.max(this.value, this.max) : this.value
displayedMax(mx, v) == IF TruthyNum(mx) THEN Maximum(v, Val(mx)) ELSE v

\* boundedValue with the two bounds applied in the other order
boundedValue_MinLast(mn, mx, v) ==
    Minimum(Maximum(v, mn), displayedMax(mx, v))

\* const boundedValue = Math.max(Math.min(this.value, max), this.min)
boundedValue(mn, mx, v) == Maximum(Minimum(v, displayedMax(mx, v)), mn)

\* (boundedValue / max) * 100 in IEEE arithmetic: the quotient num/den of two
\* integers (den > 0) when max is not 0, and otherwise NaN (0/0) or an
\* infinity (x/0)
barWidth(mn, mx, v) ==
    LET b == boundedValue(mn, mx, v)
        m == displayedMax(mx, v)
    IN IF m = 0
       THEN [kind |-> IF b = 0 THEN "NaN" ELSE IF b > 0 THEN "Infinity" ELSE "-Infinity",
             num |-> 0, den |-> 1]
       ELSE IF m > 0 THEN [kind |-> "number", num |-> b * 100, den |-> m]
       ELSE [kind |-> "number", num |-> (0 - b) * 100, den |-> 0 - m]

\* The attributes render puts on the element with role "meter"
ariaValueNow == boundedValue(min, max, value)
ariaValueMin == min
ariaValueMax == displayedMax(max, value)

----------------------------------------------------------------------------
(* Meter: repositionLabels *)

\* const pad = 8
pad == 8

\* Math.ceil of a length given in units of 1/SubPx px, in whole px
ceil(len) == (len + SubPx - 1) \div SubPx

\* What the DOM reports when repositionLabels measures it: the clientWidth
\* (whole px) of the track, of .valueBar and of .maxText
Measures == [track : {0, 200}, bar : {100, 150}, label : {42, 44, 45}]

\* contentBoxSize[0].inlineSize of an sl-resize event, in units of 1/SubPx px
TrackInlineSizes == {0, 200 * SubPx, 202 * SubPx + 1}

\* repositionLabels with the comparison slipped to a strict one
repositionLabels_Strict(hasMT, ws, last, trackWidth, m) ==
    IF ~hasMT THEN [withSeparator |-> ws, last |-> last]
    ELSE LET trackW == IF TruthyNum(trackWidth) THEN Val(trackWidth)
                       ELSE m.track * SubPx
         IN IF trackW = 0 THEN [withSeparator |-> ws, last |-> last]
            ELSE LET remaining == ceil(trackW - m.bar * SubPx - pad * SubPx)
                 IN [withSeparator |-> m.label > remaining,
                     last |-> Some([trackW |-> trackW, bar |-> m.bar,
                                    label |-> m.label])]

\* repositionLabels(trackWidth) on a rendered meter (.valueBar exists) whose
\* .maxText exists iff hasMT and carries withSeparator iff ws: the class
\* afterwards, and the measurements used (last is kept when it returns early)
repositionLabels(hasMT, ws, last, trackWidth, m) ==
    IF ~hasMT THEN [withSeparator |-> ws, last |-> last]
    ELSE LET trackW == IF TruthyNum(trackWidth) THEN Val(trackWidth)
                       ELSE m.track * SubPx
         IN IF trackW = 0 THEN [withSeparator |-> ws, last |-> last]
            ELSE LET remaining == ceil(trackW - m.bar * SubPx - pad * SubPx)
                 IN [withSeparator |-> m.label >= remaining,
                     last |-> Some([trackW |-> trackW, bar |-> m.bar,
                                    label |-> m.label])]

----------------------------------------------------------------------------
(* Meter: update cycle *)

\* The parent sets min, max and value (the first time: the first render).
\* render keeps the .maxText element while max stays truthy, creates it with
\* the class withSeparator when max becomes truthy and drops it when max
\* becomes falsy; updated then calls repositionLabels() if value or max
\* changed (on the first update value counts as changed).
MeterUpdate(mn, mx, v, m) ==
    /\ ~rendered \/ <<mn, mx, v>> /= <<min, max, value>>
    /\ min' = mn
    /\ max' = mx
    /\ value' = v
    /\ rendered' = TRUE
    /\ LET has == TruthyNum(mx)
           created == has /\ ~hasMaxText
           ws0 == IF ~has THEN FALSE ELSE IF created THEN TRUE ELSE withSeparator
           last0 == IF has /\ ~created THEN lastReposition ELSE None
           r == IF ~rendered \/ v /= value \/ mx /= max
                THEN repositionLabels(has, ws0, last0, None, m)
                ELSE [withSeparator |-> ws0, last |-> last0]
       IN /\ hasMaxText' = has
          /\ withSeparator' = r.withSeparator
          /\ lastReposition' = r.last
    /\ UNCHANGED <<pending, lastArgs, sinceLastCall, lastEvent, events, bursts,
                   invocations, invokedWith>>
    /\ UNCHANGED cdVars

----------------------------------------------------------------------------
(* Meter: onTrackResize = debounce(100)(handler) *)

\* debounce(100)
DebounceWait == 100

\* debounce: the trailing invocation is due once the wait has passed since
\* the latest call
shouldInvoke_Always(since) == TRUE
shouldInvoke(since) == since >= DebounceWait

\* An sl-resize event calls the debounced function: it keeps the event's
\* width for the trailing invocation and (re)starts the wait.
onTrackResize(w) ==
    /\ rendered
    /\ events < MaxEvents
    /\ pending' = TRUE
    /\ lastArgs' = w
    /\ sinceLastCall' = 0
    /\ lastEvent' = w
    /\ events' = events + 1
    /\ bursts' = IF events = 0 \/ sinceLastCall >= 100 THEN bursts + 1 ELSE bursts
    /\ UNCHANGED <<min, max, value, rendered, hasMaxText, withSeparator,
                   lastReposition, invocations, invokedWith>>
    /\ UNCHANGED cdVars

\* Time passes (tracked until the wait has elapsed)
Tick ==
    /\ events > 0
    /\ sinceLastCall < DebounceWait
    /\ sinceLastCall' = sinceLastCall + TickMs
    /\ UNCHANGED <<min, max, value, rendered, hasMaxText, withSeparator,
                   lastReposition, pending, lastArgs, lastEvent, events, bursts,
                   invocations, invokedWith>>
    /\ UNCHANGED cdVars

\* The debounce timer runs the handler: repositionLabels(trackWidth) with the
\* width that was kept
timerExpired(m) ==
    /\ pending
    /\ shouldInvoke(sinceLastCall)
    /\ pending' = FALSE
    /\ invocations' = invocations + 1
    /\ invokedWith' = Some(lastArgs)
    /\ LET r == repositionLabels(hasMaxText, withSeparator, lastReposition,
                                 Some(lastArgs), m)
       IN /\ withSeparator' = r.withSeparator
          /\ lastReposition' = r.last
    /\ UNCHANGED <<min, max, value, rendered, hasMaxText, lastArgs, sinceLastCall,
                   lastEvent, events, bursts>>
    /\ UNCHANGED cdVars

----------------------------------------------------------------------------
(* Specifications of the meter *)

MeterMins == {-5, 0, 5}
MeterMaxes == {None, Some(0), Some(3), Some(10)}
MeterValues == {-5, 0, 1, 15}

Init_Meter == ConfigDetailsInit /\ MeterIdle

\* The range and bar of a meter under any properties
NextMeter ==
    \E mn \in MeterMins, mx \in MeterMaxes, v \in MeterValues, m \in Measures :
        MeterUpdate(mn, mx, v, m)

SpecMeter == Init_Meter /\ [][NextMeter]_vars

\* The labels of a meter under resize events and property changes
ResizeMaxes == {None, Some(10)}
ResizeValues == {5, 15}

NextResize ==
    \/ \E mx \in ResizeMaxes, v \in ResizeValues, m \in Measures :
          MeterUpdate(0, mx, v, m)
    \/ \E w \in TrackInlineSizes : onTrackResize(w)
    \/ Tick
    \/ \E m \in Measures : timerExpired(m)

SpecResize == Init_Meter /\ [][NextResize]_vars

----------------------------------------------------------------------------
(* Specification of the mount-time fetches *)

\* Configurations that differ in their autoAddCollections and in whether
\* they carry an org id
CollectionConfigs ==
    {[BaseConfig EXCEPT !.autoAddCollections = a, !.oid = o] :
        a \in {None} \cup {Some(l) : l \in AutoAddLists}, o \in {"org", ""}}

Init == ConfigDetailsInit /\ MeterIdle

Next ==
    \/ \E cfg \in CollectionConfigs : SetCrawlConfig(cfg)
    \/ connectedCallback
    \/ \E o \in FetchOutcomes : getCollectionsStep(o)
    \/ \E d \in SettingsData : fetchAPIDefaultsOk(d)
    \/ fetchAPIDefaultsFail

Spec == Init /\ [][Next]_vars

----------------------------------------------------------------------------
(* Specification of the crawler-settings rows *)

NumFields ==
    {"limit", "pageLoadTimeout", "postLoadDelay", "behaviorTimeout",
     "pageExtraDelay", "crawlTimeout", "maxCrawlSize", "scale"}
NumVals == {None, Some(0), Some(PosVal)}
BehaviorVals == {None, Some({}), Some({"autoscroll"}), Some({"siteSpecific"})}

\* A configuration whose numeric fields all carry b
Uniform(b) == [f \in DOMAIN BaseConfig |-> IF f \in NumFields THEN b ELSE BaseConfig[f]]

\* Configurations whose numeric fields agree except for at most one, with any
\* behaviors
SettingsConfigs ==
    {[[Uniform(b) EXCEPT ![f] = v] EXCEPT !.behaviors = bh] :
        b \in NumVals, f \in NumFields, v \in NumVals, bh \in BehaviorVals}

\* Seed lists: empty, or one seed with or without a page limit
SettingsSeeds == {<<>>} \cup {<<[BaseSeed EXCEPT !.limit = l]>> : l \in NumVals}

NextSettings ==
    \/ \E cfg \in SettingsConfigs : SetCrawlConfig(cfg)
    \/ \E ss \in SettingsSeeds : SetSeeds(ss)
    \/ connectedCallback
    \/ \E d \in SettingsData : fetchAPIDefaultsOk(d)
    \/ fetchAPIDefaultsFail

SpecSettings == Init /\ [][NextSettings]_vars

----------------------------------------------------------------------------
(* Specification of the seeded-crawl rows *)

\* Values of the scope fields, at crawl level and on a seed
ScopeFieldVals(f) ==
    CASE f = "scopeType" -> {None} \cup {Some(t) : t \in ScopeTypes}
      [] f = "include" -> {None, Some(<<>>), Some(<<"^https://a/">>)}
      [] f = "depth" -> {None, Some(0), Some(PosVal)}
      [] f = "extraHops" -> {None, Some(0), Some(1)}
ScopeFields == {"scopeType", "include", "depth", "extraHops"}

SeededBaseConfig == [BaseConfig EXCEPT !.jobType = "seed-crawl"]

NextSeeded ==
    \/ ~IsSet(crawlConfig) /\ SetCrawlConfig(SeededBaseConfig)
    \/ \E f \in ScopeFields : \E v \in ScopeFieldVals(f) : EditCrawlConfig(f, v)
    \/ \E ss \in {<<>>, <<BaseSeed>>} : SetSeeds(ss)
    \/ \E f \in ScopeFields : \E v \in ScopeFieldVals(f) : EditPrimarySeed(f, v)

SpecSeeded == Init /\ [][NextSeeded]_vars

----------------------------------------------------------------------------
(* Specification of the URL-list rows *)

\* Configurations of either job type with any crawl-level extraHops and
\* failOnFailedSeed
UrlListConfigs ==
    {[BaseConfig EXCEPT !.jobType = j, !.extraHops = h, !.failOnFailedSeed = fl] :
        j \in {"url-list", "seed-crawl"}, h \in {None, Some(0), Some(1)},
        fl \in {None, Some(FALSE), Some(TRUE)}}

\* Seed lists of up to two URLs, without overrides
UrlListSeeds == {<<>>, <<BaseSeed>>, <<BaseSeed, [BaseSeed EXCEPT !.url = "u2"]>>}

\* Values of the seed-level overrides
SeedOverrideVals(f) ==
    CASE f = "scopeType" -> {None, Some("prefix"), Some("domain")}
      [] f = "include" -> {None, Some(<<"^https://a/">>)}
      [] f = "depth" -> {None, Some(PosVal)}
      [] f = "extraHops" -> {None, Some(0), Some(1)}

NextUrlList ==
    \/ \E cfg \in UrlListConfigs : SetCrawlConfig(cfg)
    \/ \E ss \in UrlListSeeds : SetSeeds(ss)
    \/ \E i \in 1..2 : \E f \in ScopeFields : \E v \in SeedOverrideVals(f) :
          EditSeed(i, f, v)

SpecUrlList == Init /\ [][NextUrlList]_vars

----------------------------------------------------------------------------
(* Claims *)

\* C1 (as claimed): once fetchCollections has completed, this.collections
\* holds exactly the ids whose fetch returned a collection, in list order; a
\* failed fetch of one id does not discard the others.
C1_PartialResultKept ==
    collPc = "done" => collections = collLocal

\* The configuration field a row displays, as the claims name it
ExplicitValue(label) ==
    CASE label = "Max Pages" -> maxPages
      [] label = "Page Load Timeout" -> Cfg("pageLoadTimeout")
      [] label = "Delay After Page Load" -> Cfg("postLoadDelay")
      [] label = "Page Behavior Timeout" -> Cfg("behaviorTimeout")
      [] label = "Auto-Scroll Behavior" -> Cfg("behaviors")
      [] label = "Delay Before Next Page" -> Cfg("pageExtraDelay")
      [] label = "Crawl Time Limit" -> Cfg("crawlTimeout")
      [] label = "Crawl Size Limit" -> Cfg("maxCrawlSize")
      [] label = "Crawler Instances" -> Cfg("scale")

\* C2 (as claimed): a row whose field carries an explicit value never shows
\* the "(default)" annotation.
C2_ExplicitNeverDefault ==
    IsSet(crawlConfig) =>
        \A l \in SettingLabels \ {"Crawler Instances"} :
            IsSet(ExplicitValue(l)) => ~SettingRow(l).isDefault

\* C3 (as claimed): a numeric field that carries an explicit 0 is displayed
\* as the number 0 formatted for that row, not as a fallback, a default or
\* "Not specified".
C3_ZeroIsExplicit ==
    IsSet(crawlConfig) =>
        \A l \in SettingLabels \ {"Auto-Scroll Behavior"} :
            ExplicitValue(l) = Some(0) =>
                /\ SettingRow(l).text \in {"pages", "duration", "bytes", "scale"}
                /\ SettingRow(l).n = 0
                /\ ~SettingRow(l).isDefault

\* C10: every field of orgDefaults is absent or strictly positive; a failed
\* settings fetch leaves orgDefaults absent, and then, with a configuration
\* loaded, a timeout without an explicit value shows "Unlimited (default)" and
\* Max Pages without an explicit value shows "Not specified".
C10_OrgDefaults ==
    /\ IsSet(orgDefaults) =>
          \A f \in DOMAIN NoDefaults :
              IsSet(Val(orgDefaults)[f]) => Val(orgDefaults)[f][1] > 0
    /\ defaultsPc = "caught" =>
          /\ orgDefaults = None
          /\ IsSet(crawlConfig) =>
                /\ \A l \in {"Page Load Timeout", "Page Behavior Timeout"} :
                      ~IsSet(ExplicitValue(l)) =>
                          SettingRow(l) = Html("Unlimited", 0, TRUE)
                /\ ~IsSet(ExplicitValue("Max Pages")) =>
                      SettingRow("Max Pages") = Html("Not specified", 0, FALSE)

\* C10 witness: the settings fetch has failed and a loaded configuration
\* leaves the page limit and both timeouts without a value.
C10_Witness ==
    /\ defaultsPc = "caught"
    /\ IsSet(crawlConfig)
    /\ \A l \in {"Max Pages", "Page Load Timeout", "Page Behavior Timeout"} :
          ~IsSet(ExplicitValue(l))

\* A seed list with a primary seed has been supplied to a seeded-crawl
\* configuration
SeededWithPrimary == SeededMode /\ IsSet(seeds) /\ Len(Val(seeds)) > 0

\* C4 (as claimed): in seeded-crawl mode scope type, include list, depth and
\* extra hops each show the primary seed's value when it carries one and
\* otherwise the crawl-level value; "None"/"No" only when neither level has a
\* value.  (A depth of 0 is accepted in either form here.)
C4_SeedOverrideFirst ==
    SeededWithPrimary =>
        LET primary == Val(seeds)[1]
            cfg == Val(crawlConfig)
            rows == renderConfirmSeededSettings
            st == Coalesce(primary.scopeType, cfg.scopeType)
            inc == Coalesce(primary.include, cfg.include)
            d == Coalesce(primary.depth, cfg.depth)
            h == Coalesce(primary.extraHops, cfg.extraHops)
        IN /\ IsSet(st) => rows.scope.text = scopeTypeLabels[Val(st)]
           /\ IF IsSet(inc) /\ Val(inc) /= <<>>
              THEN rows.include.items = Val(inc)
              ELSE rows.include.text = "None"
           /\ IsSet(rows.depth) =>
                 /\ TruthyNum(d) => Val(rows.depth) = Str("hops", Val(d))
                 /\ ~IsSet(d) => Val(rows.depth).text = "None"
           /\ rows.extraHops.text = IF TruthyNum(h) THEN "Yes" ELSE "No"

\* C9: in seeded-crawl mode with a primary seed supplied, the Crawl Scope row
\* shows the primary seed's scope type if set and else the crawl-level one;
\* the Max Depth row is present exactly when that scope type is host, domain,
\* custom or any; and when it is present and no depth is set it shows "None".
C9_MaxDepthRow ==
    SeededWithPrimary =>
        LET primary == Val(seeds)[1]
            cfg == Val(crawlConfig)
            rows == renderConfirmSeededSettings
            st == IF primary.scopeType /= None THEN primary.scopeType
                  ELSE cfg.scopeType
        IN /\ rows.status = "rows"
           /\ st /= None => rows.scope = Str(scopeTypeLabels[Val(st)], 0)
           /\ rows.depth /= None <=>
                 (st /= None /\ Val(st) \in {"host", "domain", "custom", "any"})
           /\ (rows.depth /= None /\ primary.depth = None /\ cfg.depth = None) =>
                 Val(rows.depth) = Str("None", 0)

\* C9 witness: the primary seed has no scope type, the crawl level says
\* "domain", no depth is set, and the Max Depth row is there showing "None".
C9_Witness ==
    /\ SeededWithPrimary
    /\ Val(seeds)[1].scopeType = None
    /\ Val(crawlConfig).scopeType = Some("domain")
    /\ Val(seeds)[1].depth = None
    /\ Val(crawlConfig).depth = None
    /\ renderConfirmSeededSettings.depth = Some(Str("None", 0))

C6_ZeroMaxBarIsZero ==
    (rendered /\ ariaValueMax = 0) =>
        /\ barWidth(min, max, value).kind = "number"
        /\ barWidth(min, max, value).num = 0

\* C7: after a repositionLabels call that had a non-zero track width, the
\* class withSeparator is on .maxText exactly when
\* trackWidth - valueBarWidth - 8 <= maxLabelWidth (all in px).
C7_CompactLabel ==
    lastReposition /= None =>
        LET r == Val(lastReposition)
        IN withSeparator <=>
              (r.trackW - r.bar * SubPx - 8 * SubPx <= r.label * SubPx)

\* C7 witness: the track is 200 px, the bar 150 px, the label 45 px (42 px
\* remain), and the compact form is on.
C7_Witness ==
    /\ lastReposition = Some([trackW |-> 200 * SubPx, bar |-> 150, label |-> 45])
    /\ withSeparator

\* C8: the debounced handler runs only when 100 ms have passed since the
\* latest sl-resize event, it is given the track width of that latest event,
\* and it has never run more often than bursts of events have begun.
C8_Debounce ==
    /\ [][invocations' /= invocations =>
             /\ sinceLastCall >= 100
             /\ invokedWith' = Some(lastEvent)
             /\ invocations' = invocations + 1]_vars
    /\ [](invocations <= bursts)

\* C8 witness: a burst of at least two events has been answered by a single
\* run of the handler, with the latest event's width.
C8_Witness ==
    /\ events >= 2
    /\ bursts = 1
    /\ invocations = 1
    /\ ~pending
    /\ invokedWith = Some(lastEvent)

\* Two seed lists that differ at most in their seeds' scopeType, include,
\* depth and extraHops
SameButSeedScope(a, b) ==
    /\ IsSet(a) = IsSet(b)
    /\ IsSet(a) =>
          /\ Len(Val(a)) = Len(Val(b))
          /\ \A i \in 1..Len(Val(a)) :
                /\ Val(a)[i].url = Val(b)[i].url
                /\ Val(a)[i].limit = Val(b)[i].limit

\* C11: in URL-list mode a change of the seed list that touches only the
\* seeds' scopeType, include, depth or extraHops leaves the three URL-list
\* rows as they were, and the two boolean rows say Yes exactly when the
\* crawl-level extraHops, respectively failOnFailedSeed, is truthy.
C11_UrlListIgnoresSeedScope ==
    /\ [][(UrlListMode /\ crawlConfig' = crawlConfig
           /\ SameButSeedScope(seeds, seeds')) =>
             renderConfirmUrlListSettings' = renderConfirmUrlListSettings]_vars
    /\ []((UrlListMode /\ IsSet(crawlConfig)) =>
             /\ renderConfirmUrlListSettings.extraHops.text =
                   IF Val(crawlConfig).extraHops \in {None, Some(0)}
                   THEN "No" ELSE "Yes"
             /\ renderConfirmUrlListSettings.failOnFailedSeed.text =
                   IF Val(crawlConfig).failOnFailedSeed = Some(TRUE)
                   THEN "Yes" ELSE "No")

\* C11 witness: a URL-list configuration without crawl-level extraHops whose
\* primary seed carries all four overrides, extraHops among them; the row
\* says No.
C11_Witness ==
    /\ UrlListMode
    /\ IsSet(crawlConfig)
    /\ Val(crawlConfig).extraHops = None
    /\ IsSet(seeds)
    /\ Len(Val(seeds)) = 2
    /\ Val(seeds)[1].extraHops = Some(1)
    /\ Val(seeds)[1].scopeType = Some("domain")
    /\ Val(seeds)[1].include /= None
    /\ Val(seeds)[1].depth = Some(PosVal)
    /\ renderConfirmUrlListSettings.extraHops.text = "No"
    /\ renderConfirmUrlListSettings.urls.items = <<"u1", "u2">>

\* C12: after a mount the settings endpoint has been requested at most once
\* and no collection id more than once; once a fetch has ended, by success or
\* by failure, it issues no further request whatever happens next; and while
\* either fetch is waiting its answer can be taken, whatever the state of the
\* other.
C12_FetchedOncePerMount ==
    /\ [](/\ settingsRequests <= 1
          /\ \A i, j \in 1..Len(collRequests) :
                i /= j => collRequests[i] /= collRequests[j]
          /\ (defaultsPc = "awaitFetch") =>
                (/\ ENABLED fetchAPIDefaultsFail
                 /\ ENABLED (\E d \in SettingsData : fetchAPIDefaultsOk(d)))
          /\ (collPc = "awaitApiFetch") =>
                (\A o \in FetchOutcomes : ENABLED getCollectionsStep(o)))
    /\ [][(defaultsPc \in {"done", "caught"}) =>
             (settingsRequests' = settingsRequests)]_vars
    /\ [][(collPc = "done") => (collRequests' = collRequests)]_vars

\* C12 witness: both fetches have failed, the collection fetch after its
\* second request, and the parent has since supplied another configuration;
\* the settings endpoint was requested once and no request was repeated.
C12_Witness ==
    /\ defaultsPc = "caught"
    /\ collPc = "done"
    /\ notices /= <<>>
    /\ settingsRequests = 1
    /\ collRequests = <<1, 2>>
    /\ IsSet(crawlConfig)
    /\ Val(crawlConfig).autoAddCollections /= Val(mountConfig).autoAddCollections

\* C13: the collection requests are those of the configuration found at
\* mount time: a prefix of its autoAddCollections when it had them and an org
\* id, and none otherwise.  If crawlConfig was absent at mount time, no
\* collection is ever requested and this.collections stays empty, whatever
\* configuration is supplied later.
C13_FetchDecidedAtMount ==
    mounted =>
        LET atMount == Val(mountConfig)
            ids == IF atMount.loaded /\ atMount.autoAddCollections /= None
                      /\ atMount.oid /= ""
                   THEN Val(atMount.autoAddCollections) ELSE <<>>
        IN /\ Len(collRequests) <= Len(ids)
           /\ \A i \in 1..Len(collRequests) : collRequests[i] = ids[i]
           /\ ~atMount.loaded =>
                 /\ collRequests = <<>>
                 /\ collections = <<>>
                 /\ collPc = "done"

\* C13 witness: the component connected without a crawlConfig, both fetches
\* have ended, and a configuration with two auto-add collections and an org id
\* has been supplied since; nothing was requested and collections is empty.
C13_Witness ==
    /\ mounted
    /\ ~Val(mountConfig).loaded
    /\ defaultsPc = "done"
    /\ IsSet(crawlConfig)
    /\ Val(crawlConfig).oid /= ""
    /\ Val(crawlConfig).autoAddCollections = Some(<<1, 2>>)
    /\ collRequests = <<>>
    /\ collections = <<>>

====
